---- MODULE Spec2Model ----
(***************************************************************************)
(* Model of the chat backend's request handlers (app/api.py): chat         *)
(* creation, the chat-response turn (create_chat_response) and the four    *)
(* rating endpoints.  A handler that awaits an external service is split   *)
(* at its await points; everything between two awaits is one step.         *)
(***************************************************************************)
EXTENDS Integers, Sequences, FiniteSets, TLC

\* ------------------------------------------------------------------ bounds
MaxTasks == 2        \* request handlers in flight at once
MaxChats == 2        \* Chat rows
MaxResponses == 2    \* Response rows
MaxRefs == 2         \* references in one QA-engine payload
MaxHistory == 7      \* Response rows in the store a process starts on

\* --------------------------------------------------------- program constants
FAITHFULNESS_THRESHOLD == 8      \* 0.8, scores are counted in tenths
RELEVANCE_THRESHOLD == 8         \* 0.8
max_conversation_turns == 5

\* ------------------------------------------------------------------ inputs
Emails == {"u1", "u2"}
Tasks == 1..MaxTasks
Langs == {"en", "de", "fr", "es"}
RatingValues == {"up", "down"}
NullRating == "null"
NoScore == -1

\* A text: its language, its wording, and the passes applied to it
\* (prep: prepare.request_prepare, fmt: prepare.format_references).
Txt(l, w) == [lang |-> l, text |-> w, prep |-> FALSE, fmt |-> FALSE]
NoText == Txt("", "")
Contents == {Txt(l, "q") : l \in Langs}
GuardrailMessages == {Txt("en", "g1"), Txt("en", "g2")}
UNSUPPORTED_MESSAGE ==
    Txt("en", "Language not supported. Supported languages are English, German and French")

NoPayload == [answer |-> NoText, references |-> <<>>]

VARIABLES
    users,              \* User rows: users[i] is the email of meta_user_id i
    chats,              \* Chat rows: chats[i] is the owner (meta_user_id) of chat i
    responses,          \* Response rows: responses[i] is the row with id i
    refRows,            \* Reference rows, in insertion order
    guardrail_enabled,  \* config.settings.guardrail_enabled
    gauges,             \* the four RAGAS gauges
    task,               \* per request handler: position, locals, reply, effects
    completed           \* per chat: turns that completed insert_response

vars == <<users, chats, responses, refRows, guardrail_enabled, gauges, task, completed>>

\* ------------------------------------------------------- external services
\* translator.translate(text, target): detects the source language and
\* renders the text in the target language.
translate(txt, target) ==
    [source_lang |-> txt.lang, translated_text |-> [txt EXCEPT !.lang = target]]

request_prepare(query) == [query EXCEPT !.prep = TRUE]

format_references(output) == [output EXCEPT !.fmt = TRUE]

\* prepare.response_prepare: the composer keeps the payload's reference order.
response_prepare(user_input, payload, response_id) ==
    [id |-> response_id, input |-> user_input, output |-> payload.answer,
     references |-> payload.references]

\* ------------------------------------------------------ persistence gateway
get_user_by_email(email) ==
    IF \E i \in 1..Len(users) : users[i] = email
    THEN CHOOSE i \in 1..Len(users) : users[i] = email
    ELSE 0

\* insert_user returns None for a known email; the handlers then look it up.
UsersAfterInsert(email) ==
    IF get_user_by_email(email) = 0 THEN Append(users, email) ELSE users

ResolveUser(email) ==
    IF get_user_by_email(email) = 0 THEN Len(users) + 1 ELSE get_user_by_email(email)

validate_chat_existence_access(chat_id, meta_user_id) ==
    IF chat_id \notin 1..Len(chats) THEN "NotFound"
    ELSE IF chats[chat_id] # meta_user_id THEN "AccessDenied"
    ELSE "ok"

\* The ids of the last `limit` responses of a chat, newest first.
RECURSIVE ChatResponseIds(_, _)
ChatResponseIds(chat_id, n) ==
    IF n = 0 THEN <<>>
    ELSE IF responses[n].chat_id = chat_id
         THEN <<n>> \o ChatResponseIds(chat_id, n - 1)
         ELSE ChatResponseIds(chat_id, n - 1)

get_responses_by_chat_id(chat_id, limit) ==
    LET ids == ChatResponseIds(chat_id, Len(responses))
    IN  SubSeq(ids, 1, IF Len(ids) < limit THEN Len(ids) ELSE limit)

insert_response(rows, chat_id, user_input, query, output, original_response) ==
    Append(rows, [chat_id |-> chat_id, user_input |-> user_input, query |-> query,
                  output |-> output, original_response |-> original_response,
                  rating |-> NullRating])

insert_response_reference(rows, reference_id, reference_type, idx, response_id) ==
    Append(rows, [reference_id |-> reference_id, reference_type |-> reference_type,
                  idx |-> idx, response_id |-> response_id])

update_response_rating(rows, response_id, rating) ==
    [rows EXCEPT ![response_id].rating = rating]

\* -------------------------------------------------------------------- tasks
ZERO_ID == 0         \* "00000000-0000-0000-0000-000000000000"
TEMP_ID == -2        \* str(uuid.uuid4()), replaced by the row's id on insert

NoBody == [id |-> -1, input |-> NoText, output |-> NoText, references |-> <<>>]
NoScores == [faithfulness |-> NoScore, answer_relevance |-> NoScore,
             context_precision |-> NoScore, similarity |-> NoScore]
\* What one handler run did: rows written, external calls made, log records
\* emitted, prior responses read into the conversation history.
NoEffects == [users |-> 0, responses |-> 0, refs |-> 0, ratings |-> 0, translator |-> 0,
              guardrail |-> 0, qa |-> 0, scored |-> 0, logged |-> 0, seen |-> 0]
\* What the external services answered to one handler run.
NoAnswers == [limiter |-> "", guardrail |-> "", message |-> NoText, qa |-> "",
              references |-> <<>>, db |-> "", scoring |-> "", scores |-> NoScores]
\* What the scorer may answer: it raises, or it returns the scores.
ScoringRaises == [raised |-> TRUE, scores |-> NoScores]
Scored(s) == [raised |-> FALSE, scores |-> s]
Scores(f, ar, cp, sim) ==
    [faithfulness |-> f, answer_relevance |-> ar, context_precision |-> cp,
     similarity |-> sim]

IdleTask ==
    [pc |-> "idle", op |-> "", email |-> "", chatId |-> 0, responseId |-> 0,
     content |-> NoText, source_lang |-> "", query |-> NoText,
     conversation_history |-> <<>>, chat_response |-> NoBody,
     knowledge_graph_response |-> NoPayload,
     status |-> "", value |-> NullRating, rating |-> NullRating, eff |-> NoEffects, env |-> NoAnswers]

\* A handler that returned (pc "done") or raised (pc "failed"): its locals are
\* gone, its reply and what it did remain until the reply is delivered.
Ended(tr, pc, status, body) ==
    [IdleTask EXCEPT !.pc = pc, !.op = tr.op, !.email = tr.email,
                     !.chatId = tr.chatId, !.responseId = tr.responseId,
                     !.content = tr.content, !.source_lang = tr.source_lang,
                     !.status = status, !.chat_response = body,
                     !.value = tr.value, !.rating = tr.rating, !.eff = tr.eff, !.env = tr.env]

Returned(tr, body) == Ended(tr, "done", "ok", body)
Raised(tr, status) == Ended(tr, "failed", status, NoBody)

Init ==
    /\ users = <<>>
    /\ chats = <<>>
    /\ responses = <<>>
    /\ refRows = <<>>
    /\ guardrail_enabled \in BOOLEAN
    /\ gauges = NoScores
    /\ task = [t \in Tasks |-> IdleTask]
    /\ completed = [c \in 1..MaxChats |-> 0]

\* ---------------------------------------------------------------- create_chat
create_chat(email) ==
    /\ Len(chats) < MaxChats
    /\ users' = UsersAfterInsert(email)
    /\ chats' = Append(chats, ResolveUser(email))
    /\ UNCHANGED <<responses, refRows, guardrail_enabled, gauges, task, completed>>

\* ------------------------------------------------------- create_chat_response
\* A handler that consults the rate limiter and ignores its verdict.
AdmissionStatus_NoLimit(chatId, meta_user_id, limiter) ==
    validate_chat_existence_access(chatId, meta_user_id)

\* Lines 174-182: resolve the user, validate access, consult the rate limiter.
\* `limiter` is the rate limiter's verdict for this request.
AdmissionStatus(chatId, meta_user_id, limiter) ==
    IF validate_chat_existence_access(chatId, meta_user_id) # "ok"
    THEN validate_chat_existence_access(chatId, meta_user_id)
    ELSE IF limiter = "reject" THEN "RateLimited"
    ELSE "ok"

\* Lines 174-186, up to the await of translator.translate.
create_chat_response_start(t, email, chatId, content, limiter) ==
    LET isNew == get_user_by_email(email) = 0
        uid == ResolveUser(email)
        access == validate_chat_existence_access(chatId, uid)
        st == AdmissionStatus(chatId, uid, limiter)
        tr0 == [IdleTask EXCEPT !.op = "create_chat_response", !.email = email,
                                !.chatId = chatId, !.content = content,
                                !.eff.users = IF isNew THEN 1 ELSE 0,
                                !.env.limiter = IF access = "ok" THEN limiter ELSE ""]
    IN  /\ task[t].pc = "idle"
        /\ access # "ok" => limiter = "allow"   \* the limiter is not consulted
        /\ users' = UsersAfterInsert(email)
        /\ task' = [task EXCEPT ![t] =
                IF st # "ok" THEN Raised(tr0, st)
                ELSE [tr0 EXCEPT !.pc = "translate", !.eff.translator = 1]]
        /\ UNCHANGED <<chats, responses, refRows, guardrail_enabled, gauges, completed>>

\* Lines 187-192: the query for a supported source language.
QueryFor(content, translation) ==
    IF translation.source_lang = "en" THEN content
    ELSE translation.translated_text

\* A language branch that lets every detected language through.
LanguageSupported_Any(source_lang) == source_lang # ""

\* Lines 188-192: the languages that do not take the else branch.
LanguageSupported(source_lang) == source_lang = "en" \/ source_lang \in {"de", "fr"}

\* Lines 193-202 and 209-215: the reply of a short-circuited turn.
ShortCircuit(content, output) ==
    [id |-> ZERO_ID, input |-> content, output |-> output, references |-> <<>>]

\* Lines 206-216: whether the guardrail is consulted at all.
GuardrailConsulted == guardrail_enabled

\* A reply that runs the guardrail's message through the citation formatter.
GuardrailReply_Formatted(content, g) == ShortCircuit(content, format_references(g.message))

\* Lines 208-216: the reply when the guardrail finds the query not relevant.
GuardrailReply(content, g) == ShortCircuit(content, g.message)

\* Lines 222-235: two entries per prior response, oldest first.
RECURSIVE Flatten(_)
Flatten(ids) ==
    IF ids = <<>> THEN <<>>
    ELSE <<[role |-> "user", content |-> responses[Head(ids)].query],
           [role |-> "assistant", content |-> responses[Head(ids)].output]>>
         \o Flatten(Tail(ids))

Reverse(s) == [i \in 1..Len(s) |-> s[Len(s) + 1 - i]]

\* A loop that walks the fetched rows as the store returns them.
ConversationHistory_NewestFirst(chatId) ==
    Flatten(get_responses_by_chat_id(chatId, max_conversation_turns))

ConversationHistory(chatId) ==
    Flatten(Reverse(get_responses_by_chat_id(chatId, max_conversation_turns)))

\* Lines 186-247: the translator answered (trOk) or raised; the guardrail's
\* verdict is g ("raise": guardrail.guardrails raised); up to the await of
\* client.post.
create_chat_response_translated(t, trOk, g) ==
    LET tr == task[t]
        translation == translate(tr.content, "en")
        src == translation.source_lang
        tr1 == [tr EXCEPT !.source_lang = src]
        tr2 == [tr1 EXCEPT !.eff.guardrail = IF GuardrailConsulted THEN 1 ELSE 0,
                           !.env.guardrail = IF ~GuardrailConsulted THEN ""
                                             ELSE IF g.raised THEN "raise"
                                             ELSE IF g.relevant THEN "relevant"
                                             ELSE "irrelevant",
                           !.env.message = IF GuardrailConsulted THEN g.message ELSE NoText]
    IN
    /\ tr.pc = "translate"
    /\ task' = [task EXCEPT ![t] =
         IF ~trOk THEN Raised(tr, "UpstreamFailure")
         ELSE IF ~LanguageSupported(src)
              THEN Returned(tr1, ShortCircuit(tr.content, UNSUPPORTED_MESSAGE))
         ELSE IF GuardrailConsulted /\ g.raised THEN Raised(tr2, "UpstreamFailure")
         ELSE IF GuardrailConsulted /\ ~g.relevant
              THEN Returned(tr2, GuardrailReply(tr.content, g))
         ELSE [tr2 EXCEPT !.pc = "qa",
                          !.query = request_prepare(QueryFor(tr.content, translation)),
                          !.conversation_history = ConversationHistory(tr.chatId),
                          !.eff.seen = Len(ConversationHistory(tr.chatId)) \div 2,
                          !.eff.qa = 1]]
    /\ UNCHANGED <<users, chats, responses, refRows, guardrail_enabled, gauges, completed>>

\* A loop that counts the ordinals from one.
RECURSIVE PersistReferences_FromOne(_, _, _, _)
PersistReferences_FromOne(rows, references, response_id, n) ==
    IF n = 0 THEN rows
    ELSE insert_response_reference(
            PersistReferences_FromOne(rows, references, response_id, n - 1),
            references[n].id, references[n].type, n, response_id)

\* Lines 281-287: the first n references, each with its position as ordinal.
RECURSIVE PersistReferences(_, _, _, _)
PersistReferences(rows, references, response_id, n) ==
    IF n = 0 THEN rows
    ELSE insert_response_reference(
            PersistReferences(rows, references, response_id, n - 1),
            references[n].id, references[n].type, n - 1, response_id)

\* An insert that keeps one Response per chat and message.
PersistResponse_Dedup(rows, tr, cr) ==
    IF \E i \in 1..Len(rows) : rows[i].chat_id = tr.chatId /\ rows[i].user_input = cr.input
    THEN rows
    ELSE insert_response(rows, tr.chatId, cr.input, tr.query, cr.output,
                         tr.knowledge_graph_response)

\* Lines 269-276.
PersistResponse(rows, tr, cr) ==
    insert_response(rows, tr.chatId, cr.input, tr.query, cr.output,
                    tr.knowledge_graph_response)

\* Lines 297-301.
SetGauges(g, s) ==
    [faithfulness |-> s.faithfulness, answer_relevance |-> s.answer_relevance,
     context_precision |-> s.context_precision,
     similarity |-> IF s.similarity # NoScore THEN s.similarity ELSE g.similarity]

\* A threshold check that wants both scores low.
LowQuality_Both(s) ==
    s.faithfulness < FAITHFULNESS_THRESHOLD /\ s.answer_relevance < RELEVANCE_THRESHOLD

\* Line 304.
LowQuality(s) ==
    s.faithfulness < FAITHFULNESS_THRESHOLD \/ s.answer_relevance < RELEVANCE_THRESHOLD

\* Lines 289-311: what a scorer that raises does to the turn.
ScoringFailed(tr) == Raised(tr, "ScoringFailure")

\* Lines 267-311: format the output, persist the Response and its References,
\* score, return.  `writes` is the number of database writes that succeed
\* before one raises (none raises when it exceeds the number of references);
\* `sc` is the scorer's answer.
Finish(t, tr, output, writes, sc) ==
    LET cr == [tr.chat_response EXCEPT !.output = format_references(output)]
        K == Len(cr.references)
        rid == Len(responses) + 1
        n == IF writes - 1 < K THEN writes - 1 ELSE K
        tr1 == [tr EXCEPT !.eff.responses = 1, !.eff.refs = n,
                          !.env.db = IF writes <= K THEN "raise" ELSE "ok"]
        tr2 == [tr1 EXCEPT !.eff.scored = 1,
                           !.env.scoring = IF sc.raised THEN "raise" ELSE "ok",
                           !.env.scores = sc.scores]
    IN
    /\ Len(responses) < MaxResponses
    /\ IF writes = 0
       THEN /\ task' = [task EXCEPT ![t] =
                            Raised([tr EXCEPT !.env.db = "raise"], "PersistenceFailure")]
            /\ UNCHANGED <<responses, refRows, gauges, completed>>
       ELSE /\ responses' = PersistResponse(responses, tr, cr)
            /\ refRows' = PersistReferences(refRows, cr.references, rid, n)
            /\ completed' = [completed EXCEPT ![tr.chatId] = @ + 1]
            /\ IF writes <= K
               THEN /\ task' = [task EXCEPT ![t] = Raised(tr1, "PersistenceFailure")]
                    /\ UNCHANGED gauges
               ELSE IF sc.raised
               THEN /\ task' = [task EXCEPT ![t] = ScoringFailed(tr2)]
                    /\ UNCHANGED gauges
               ELSE /\ gauges' = SetGauges(gauges, sc.scores)
                    /\ task' = [task EXCEPT ![t] =
                          Returned([tr2 EXCEPT !.eff.logged =
                                        IF LowQuality(sc.scores) THEN 1 ELSE 0],
                                   [cr EXCEPT !.id = rid])]
    /\ UNCHANGED <<users, chats, guardrail_enabled>>

\* A handler that answers a failed QA call with an empty reply.
UpstreamFailed_Swallowed(tr) ==
    Returned([tr EXCEPT !.env.qa = "error"], ShortCircuit(tr.content, NoText))

\* Lines 247-248: a transport error or a non-2xx status ends the turn.
UpstreamFailed(tr) == Raised([tr EXCEPT !.env.qa = "error"], "UpstreamFailure")

\* Lines 247-311: the QA engine answered with `reply` (a payload, or "error"
\* in its status field); for a translated query, up to the await of the
\* translation back.
create_chat_response_answered(t, reply, writes, sc) ==
    LET tr == task[t]
        tr1 == [tr EXCEPT !.env.qa = "ok", !.env.references = reply.payload.references,
                          !.knowledge_graph_response = reply.payload,
                          !.chat_response =
                              response_prepare(tr.content, reply.payload, TEMP_ID)]
    IN
    /\ tr.pc = "qa"
    /\ IF reply.status = "error"
       THEN /\ task' = [task EXCEPT ![t] = UpstreamFailed(tr)]
            /\ UNCHANGED <<users, chats, responses, refRows, guardrail_enabled,
                           gauges, completed>>
       ELSE IF tr.source_lang # "en"
       THEN /\ task' = [task EXCEPT ![t] =
                            [tr1 EXCEPT !.pc = "translate_back", !.eff.translator = 2]]
            /\ UNCHANGED <<users, chats, responses, refRows, guardrail_enabled,
                           gauges, completed>>
       ELSE Finish(t, tr1, tr1.chat_response.output, writes, sc)

\* Lines 260-311: the translation back to the source language arrived.
create_chat_response_translated_back(t, trOk, writes, sc) ==
    LET tr == task[t]
    IN
    /\ tr.pc = "translate_back"
    /\ IF ~trOk
       THEN /\ task' = [task EXCEPT ![t] = Raised(tr, "UpstreamFailure")]
            /\ UNCHANGED <<users, chats, responses, refRows, guardrail_enabled,
                           gauges, completed>>
       ELSE Finish(t, tr, translate(tr.chat_response.output, tr.source_lang).translated_text,
                   writes, sc)

\* ------------------------------------------------------------------ ratings
\* Lines 337-345, 381-391, 424-434, 461-469: the checks of a rating handler,
\* in the order the code makes them.  `value` is the rating the handler
\* dereferences (rating_request.rating.value), "get"/"delete" have none.
RatingStatus(op, email, chatId, responseId, value) ==
    IF get_user_by_email(email) = 0 THEN "InternalError"
    ELSE IF validate_chat_existence_access(chatId, get_user_by_email(email)) # "ok"
    THEN validate_chat_existence_access(chatId, get_user_by_email(email))
    ELSE IF op \in {"create_rating", "update_rating"} /\ value = NullRating
    THEN "InternalError"
    ELSE IF responseId \notin 1..Len(responses) THEN "NotFound"
    ELSE "ok"

RatingTask(op, email, chatId, responseId, value) ==
    [IdleTask EXCEPT !.op = op, !.email = email, !.chatId = chatId,
                     !.responseId = responseId, !.value = value]

\* Lines 319-351.
get_rating(t, email, chatId, responseId) ==
    LET tr == RatingTask("get_rating", email, chatId, responseId, NullRating)
        st == RatingStatus("get_rating", email, chatId, responseId, NullRating)
    IN
    /\ task[t].pc = "idle"
    /\ task' = [task EXCEPT ![t] =
            IF st # "ok" THEN Raised(tr, st)
            ELSE Returned([tr EXCEPT !.rating = responses[responseId].rating], NoBody)]
    /\ UNCHANGED <<users, chats, responses, refRows, guardrail_enabled, gauges, completed>>

\* Lines 381-394 and 424-437: create_rating and update_rating share their body.
SetRating(t, op, email, chatId, responseId, value) ==
    LET tr == RatingTask(op, email, chatId, responseId, value)
        st == RatingStatus(op, email, chatId, responseId, value)
        rows == update_response_rating(responses, responseId, value)
    IN
    /\ task[t].pc = "idle"
    /\ IF st # "ok"
       THEN /\ task' = [task EXCEPT ![t] = Raised(tr, st)]
            /\ UNCHANGED responses
       ELSE /\ responses' = rows
            /\ task' = [task EXCEPT ![t] =
                    Returned([tr EXCEPT !.rating = rows[responseId].rating,
                                        !.eff.ratings = 1], NoBody)]
    /\ UNCHANGED <<users, chats, refRows, guardrail_enabled, gauges, completed>>

\* Lines 359-394.
create_rating(t, email, chatId, responseId, value) ==
    SetRating(t, "create_rating", email, chatId, responseId, value)

\* Lines 402-437.
update_rating(t, email, chatId, responseId, value) ==
    SetRating(t, "update_rating", email, chatId, responseId, value)

\* A delete that clears the rating of every response of the chat.
delete_rating_WholeChat(t, email, chatId, responseId) ==
    LET tr == RatingTask("delete_rating", email, chatId, responseId, NullRating)
        st == RatingStatus("delete_rating", email, chatId, responseId, NullRating)
    IN
    /\ task[t].pc = "idle"
    /\ IF st # "ok"
       THEN /\ task' = [task EXCEPT ![t] = Raised(tr, st)]
            /\ UNCHANGED responses
       ELSE /\ responses' = [i \in 1..Len(responses) |->
                                IF responses[i].chat_id = chatId
                                THEN [responses[i] EXCEPT !.rating = NullRating]
                                ELSE responses[i]]
            /\ task' = [task EXCEPT ![t] = Returned([tr EXCEPT !.eff.ratings = 1], NoBody)]
    /\ UNCHANGED <<users, chats, refRows, guardrail_enabled, gauges, completed>>

\* Lines 441-471.
delete_rating(t, email, chatId, responseId) ==
    LET tr == RatingTask("delete_rating", email, chatId, responseId, NullRating)
        st == RatingStatus("delete_rating", email, chatId, responseId, NullRating)
    IN
    /\ task[t].pc = "idle"
    /\ IF st # "ok"
       THEN /\ task' = [task EXCEPT ![t] = Raised(tr, st)]
            /\ UNCHANGED responses
       ELSE /\ responses' = update_response_rating(responses, responseId, NullRating)
            /\ task' = [task EXCEPT ![t] = Returned([tr EXCEPT !.eff.ratings = 1], NoBody)]
    /\ UNCHANGED <<users, chats, refRows, guardrail_enabled, gauges, completed>>

\* ------------------------------------------------------------------ delivery
\* The reply of a handler that returned or raised reaches the caller.
deliver(t) ==
    /\ task[t].pc \in {"done", "failed"}
    /\ task' = [task EXCEPT ![t] = IdleTask]
    /\ UNCHANGED <<users, chats, responses, refRows, guardrail_enabled, gauges, completed>>

\* ------------------------------------------------------------ specifications
\* What the callers and the external services may send: E.tasks the handlers
\* in flight, E.emails the callers, E.contents the messages, E.limiter the rate
\* limiter's verdicts, E.up whether translator calls succeed, E.guardrail the
\* guardrail's verdicts, E.replies the QA engine's replies, E.writes the
\* database writes that succeed before one raises, E.scoring the scorer's
\* answers.
GuardrailVerdicts ==
    {[raised |-> FALSE, relevant |-> TRUE, message |-> NoText],
     [raised |-> TRUE, relevant |-> FALSE, message |-> NoText]}
        \cup {[raised |-> FALSE, relevant |-> FALSE, message |-> m] : m \in GuardrailMessages}
QAError == [status |-> "error", payload |-> NoPayload]
QAReply(p) == [status |-> "ok", payload |-> p]
PayloadOf(rs) == [answer |-> Txt("en", "a"), references |-> rs]
R1 == [id |-> "r1", type |-> "doc"]
R2 == [id |-> "r2", type |-> "product"]

Turns(E) ==
    \/ \E e \in E.emails : create_chat(e)
    \/ \E t \in E.tasks, e \in E.emails, c \in E.chats, x \in E.contents,
          l \in E.limiter :
            create_chat_response_start(t, e, c, x, l)
    \/ \E t \in E.tasks, ok \in E.up, g \in E.guardrail :
            create_chat_response_translated(t, ok, g)
    \/ \E t \in E.tasks, r \in E.replies, w \in E.writes, sc \in E.scoring :
            create_chat_response_answered(t, r, w, sc)
    \/ \E t \in E.tasks, ok \in E.up, w \in E.writes, sc \in E.scoring :
            create_chat_response_translated_back(t, ok, w, sc)
    \/ \E t \in E.tasks : deliver(t)

Ratings(E) ==
    \/ \E t \in E.tasks, e \in E.emails, c \in E.chats, r \in 1..MaxResponses :
            get_rating(t, e, c, r)
    \/ \E t \in E.tasks, e \in E.emails, c \in E.chats, r \in 1..MaxResponses,
          v \in RatingValues \cup {NullRating} :
            create_rating(t, e, c, r, v)
    \/ \E t \in E.tasks, e \in E.emails, c \in E.chats, r \in 1..MaxResponses,
          v \in RatingValues \cup {NullRating} :
            update_rating(t, e, c, r, v)
    \/ \E t \in E.tasks, e \in E.emails, c \in E.chats, r \in 1..MaxResponses :
            delete_rating(t, e, c, r)

AllWrites == MaxRefs + 1
Relevant == [raised |-> FALSE, relevant |-> TRUE, message |-> NoText]
OneScore == Scored(Scores(8, 8, 8, NoScore))

\* The plain environment: one handler at a time, one caller, one chat, a German
\* message (the longest path through the turn), nothing fails.
PlainEnv ==
    [tasks |-> {1}, emails |-> {"u1"}, chats |-> {1}, contents |-> {Txt("de", "q")},
     limiter |-> {"allow"}, up |-> {TRUE}, guardrail |-> {Relevant},
     replies |-> {QAReply(PayloadOf(<<R1>>))}, writes |-> {AllWrites},
     scoring |-> {OneScore}]

\* Two callers, every language, limiter and guardrail verdict, every upstream
\* failure, and an insert of the Response or of its Reference that raises; the
\* guardrail is enabled or not.
TurnEnv ==
    [PlainEnv EXCEPT !.emails = Emails, !.contents = Contents,
                     !.limiter = {"allow", "reject"}, !.up = BOOLEAN,
                     !.guardrail = GuardrailVerdicts,
                     !.replies = {QAError, QAReply(PayloadOf(<<R1>>))},
                     !.writes = {0, 1, AllWrites}]

Next == Turns(TurnEnv)

Spec == Init /\ [][Next]_vars

\* The store as deployed by default: the guardrail is disabled.
InitDefault == Init /\ ~guardrail_enabled

\* Every reference list of the QA engine.
SeqsUpTo(S, n) == UNION {[1..k -> S] : k \in 0..n}

RefsEnv ==
    [PlainEnv EXCEPT !.replies = {QAReply(PayloadOf(rs)) : rs \in SeqsUpTo({R1, R2}, MaxRefs)}]

NextRefs == Turns(RefsEnv)

SpecRefs == InitDefault /\ [][NextRefs]_vars

\* Every score below, at and above the thresholds, with and without a
\* similarity, and a scorer that raises; English and German messages.
ScoreVals == {7, 8, 9}

ScoreEnv ==
    [PlainEnv EXCEPT !.contents = {Txt("en", "q"), Txt("de", "q")}, !.scoring =
        {ScoringRaises} \cup
        {Scored(Scores(f, ar, cp, sim)) :
            f \in ScoreVals, ar \in ScoreVals, cp \in ScoreVals,
            sim \in {NoScore} \cup ScoreVals}]

NextScore == Turns(ScoreEnv)

SpecScore == InitDefault /\ [][NextScore]_vars

\* Handlers in flight at once on one chat, with English and German messages
\* of the same wording; the insert of the Response may raise.
ConcEnv ==
    [PlainEnv EXCEPT !.tasks = Tasks, !.contents = {Txt("en", "q"), Txt("de", "q")},
                     !.writes = {0, AllWrites}]

NextConc == Turns(ConcEnv)

SpecConc == InitDefault /\ [][NextConc]_vars

\* A process that starts on a store left by earlier turns of one user: up to
\* MaxHistory Response rows of distinct wording, spread over the user's chats.
RECURSIVE StoreOf(_)
StoreOf(cs) ==
    IF cs = <<>> THEN <<>>
    ELSE LET i == Len(cs)
             q == Txt("en", "q" \o ToString(i))
             a == Txt("en", "a" \o ToString(i))
         IN  insert_response(StoreOf(SubSeq(cs, 1, i - 1)), cs[i], q, request_prepare(q),
                             format_references(a), [answer |-> a, references |-> <<>>])

ChatsOf(cs) ==
    [c \in 1..(IF \E i \in 1..Len(cs) : cs[i] > 1
               THEN CHOOSE m \in 1..MaxChats :
                        /\ \E i \in 1..Len(cs) : cs[i] = m
                        /\ \A i \in 1..Len(cs) : cs[i] <= m
               ELSE 1) |-> 1]

InitHist ==
    /\ users = <<"u1">>
    /\ \E cs \in SeqsUpTo(1..MaxChats, MaxHistory) :
         /\ chats = ChatsOf(cs)
         /\ responses = StoreOf(cs)
         /\ completed = [c \in 1..MaxChats |->
                            Cardinality({i \in 1..Len(cs) : cs[i] = c})]
    /\ refRows = <<>>
    /\ guardrail_enabled = FALSE
    /\ gauges = NoScores
    /\ task = [t \in Tasks |-> IdleTask]

HistEnv == [PlainEnv EXCEPT !.chats = 1..MaxChats]

NextHist == Turns(HistEnv)

SpecHist == InitHist /\ [][NextHist]_vars

\* Two callers, their chats and the rating endpoints called on every chat;
\* turns take the plain path on the first chat.
AccessEnv == [PlainEnv EXCEPT !.emails = Emails, !.chats = 1..MaxChats]

NextAccess == Turns([PlainEnv EXCEPT !.emails = Emails]) \/ Ratings(AccessEnv)

SpecAccess == InitDefault /\ [][NextAccess]_vars

\* ------------------------------------------------------------------- claims
IsTurn(tr) == tr.op = "create_chat_response"
Persisted(tr) == tr.eff.responses + tr.eff.refs

\* C2: a turn whose detected source language is none of "en", "de", "fr"
\* returns normally with the fixed unsupported-language message and no
\* references, having created no Response row and no Reference row and made
\* no call to the QA engine.
C2_UnsupportedLanguage ==
    \A t \in Tasks :
        (IsTurn(task[t]) /\ task[t].source_lang \notin {"", "en", "de", "fr"}) =>
            /\ task[t].pc = "done" /\ task[t].status = "ok"
            /\ task[t].chat_response.output = UNSUPPORTED_MESSAGE
            /\ task[t].chat_response.references = <<>>
            /\ Persisted(task[t]) = 0
            /\ task[t].eff.qa = 0

\* A Spanish message was answered on a chat that already holds a response.
C2_Witness ==
    \E t \in Tasks :
        /\ IsTurn(task[t]) /\ task[t].pc = "done" /\ task[t].source_lang = "es"
        /\ \E i \in 1..Len(responses) : responses[i].chat_id = task[t].chatId

\* C3: with the guardrail enabled, a turn whose query the guardrail finds not
\* relevant returns the guardrail's message verbatim, having created no
\* Response row and no Reference row and made no call to the QA engine.
C3_GuardrailVerbatim ==
    \A t \in Tasks :
        (IsTurn(task[t]) /\ guardrail_enabled /\ task[t].env.guardrail = "irrelevant") =>
            /\ task[t].pc = "done" /\ task[t].status = "ok"
            /\ task[t].chat_response.output = task[t].env.message
            /\ Persisted(task[t]) = 0
            /\ task[t].eff.qa = 0

\* The guardrail rejected a translated (German) query with its second message.
C3_Witness ==
    \E t \in Tasks :
        /\ IsTurn(task[t]) /\ task[t].pc = "done" /\ guardrail_enabled
        /\ task[t].env.guardrail = "irrelevant" /\ task[t].source_lang = "de"
        /\ task[t].chat_response.output = Txt("en", "g2")

\* C5: a turn the rate limiter rejects ends with RateLimited, having called
\* neither translator, guardrail nor QA engine and written no User, Response
\* or Reference row.
C5_RateLimited ==
    \A t \in Tasks :
        (IsTurn(task[t]) /\ task[t].env.limiter = "reject") =>
            /\ task[t].pc = "failed" /\ task[t].status = "RateLimited"
            /\ task[t].eff = NoEffects

\* The second caller was rate limited on a chat of their own.
C5_Witness ==
    \E t \in Tasks :
        /\ IsTurn(task[t]) /\ task[t].status = "RateLimited" /\ task[t].email = "u2"
        /\ task[t].env.limiter = "reject"

\* C8: a turn whose QA call fails ends in a failure with no reply body: the
\* QA engine was called exactly once, no Response row and no Reference row
\* was persisted, and the scoring step did not run.
C8_UpstreamFailure ==
    \A t \in Tasks :
        (IsTurn(task[t]) /\ task[t].env.qa = "error") =>
            /\ task[t].pc = "failed" /\ task[t].status = "UpstreamFailure"
            /\ task[t].chat_response = NoBody
            /\ task[t].eff.qa = 1
            /\ Persisted(task[t]) = 0
            /\ task[t].eff.scored = 0

\* The QA call of a turn failed.
C8_Witness ==
    \E t \in Tasks :
        /\ IsTurn(task[t]) /\ task[t].env.qa = "error" /\ task[t].pc = "failed"
        /\ task[t].eff.qa = 1

RatingOps == {"get_rating", "create_rating", "update_rating", "delete_rating"}

\* The handler run that task t starts in this step, if any.
Starts(t) == task[t].pc = "idle" /\ task'[t].pc # "idle"

\* C1: a call of create_chat_response or of a rating endpoint on an existing
\* chat owned by another identity ends in AccessDenied, for every calling
\* identity, and returns or modifies no Response content or rating.
C1_AccessDenied ==
    [][\A t \in Tasks :
        (/\ Starts(t)
         /\ task'[t].op \in RatingOps \cup {"create_chat_response"}
         /\ task'[t].chatId \in 1..Len(chats)
         /\ chats[task'[t].chatId] # get_user_by_email(task'[t].email))
        => /\ task'[t].pc = "failed" /\ task'[t].status = "AccessDenied"
           /\ task'[t].rating = NullRating /\ task'[t].chat_response = NoBody
           /\ responses' = responses /\ refRows' = refRows]_vars

\* C7: on a chat owned by the caller and a Response in it, a successful
\* create_rating(v) or update_rating(w) stores and returns the value given,
\* delete_rating stores null, get_rating returns the stored rating, and none
\* of them changes another field of the Response, another Response, or a
\* Reference row.
C7_RatingRoundTrip ==
    [][\A t \in Tasks :
        (/\ Starts(t)
         /\ task'[t].op \in RatingOps /\ task'[t].status = "ok"
         /\ task'[t].responseId \in 1..Len(responses)
         /\ responses[task'[t].responseId].chat_id = task'[t].chatId)
        => LET r == task'[t].responseId
               op == task'[t].op
           IN  /\ chats[task'[t].chatId] = get_user_by_email(task'[t].email)
               /\ op \in {"create_rating", "update_rating"} =>
                    /\ responses'[r].rating = task'[t].value
                    /\ task'[t].rating = task'[t].value
                    /\ task'[t].value \in RatingValues
               /\ op = "delete_rating" => responses'[r].rating = NullRating
               /\ op = "get_rating" =>
                    /\ task'[t].rating = responses[r].rating
                    /\ responses' = responses
               /\ responses' = [responses EXCEPT ![r].rating = responses'[r].rating]
               /\ refRows' = refRows]_vars

\* A rating was created, then replaced, and read back, while another Response
\* of the same chat kept its own rating.
C7_Witness ==
    \E t \in Tasks :
        /\ task[t].op = "get_rating" /\ task[t].status = "ok"
        /\ task[t].rating = "down"
        /\ \E r \in 1..Len(responses) :
            /\ r # task[t].responseId
            /\ responses[r].chat_id = task[t].chatId
            /\ responses[r].rating = "up"

\* The Reference rows of Response rid among rows, in insertion order.
ReferencesIn(rows, rid) ==
    LET Mine(row) == row.response_id = rid
    IN  SelectSeq(rows, Mine)

ReferencesOf(rid) == ReferencesIn(refRows, rid)

\* A turn that returned the ChatResponse of a persisted Response.
Succeeded(tr) == IsTurn(tr) /\ tr.pc = "done" /\ tr.eff.responses = 1

\* C6: after a successful turn whose composer output holds K references, the
\* Reference rows of the new Response are exactly K, and the row at position
\* i carries ordinal i and the id and type of the reference at position i.
C6_ReferenceOrdinals ==
    \A t \in Tasks :
        Succeeded(task[t]) =>
            LET refs == task[t].chat_response.references
                rows == ReferencesOf(task[t].chat_response.id)
            IN  /\ Len(rows) = Len(refs)
                /\ task[t].eff.refs = Len(refs)
                /\ \A i \in 1..Len(rows) :
                    /\ rows[i].idx = i - 1
                    /\ rows[i].reference_id = refs[i].id
                    /\ rows[i].reference_type = refs[i].type

\* A turn persisted the references r2, r1 in that order, after an earlier
\* turn had persisted a single reference.
C6_Witness ==
    \E t \in Tasks :
        /\ Succeeded(task[t])
        /\ task[t].chat_response.references = <<R2, R1>>
        /\ task[t].chat_response.id = 2
        /\ Len(ReferencesOf(1)) = 1

\* C4: when the scoring step raises on a turn that has persisted its Response
\* and References, the turn still returns the composed ChatResponse.
C4_ScoringSwallowed ==
    \A t \in Tasks :
        (IsTurn(task[t]) /\ task[t].env.scoring = "raise") =>
            /\ task[t].pc = "done" /\ task[t].status = "ok"
            /\ task[t].chat_response # NoBody

\* C9: the step that ends a successful turn sets the faithfulness,
\* answer-relevance and context-precision gauges to that turn's scores, emits
\* a low-quality log record exactly when faithfulness or answer relevance is
\* below 0.8, and returns and persists what the QA payload alone determines.
C9_ScoresExported ==
    [][\A t \in Tasks :
        (task[t].pc # "done" /\ Succeeded(task'[t])) =>
            LET sc == task'[t].env.scores
                body == task'[t].chat_response
                rid == Len(responses) + 1
            IN  /\ gauges'.faithfulness = sc.faithfulness
                /\ gauges'.answer_relevance = sc.answer_relevance
                /\ gauges'.context_precision = sc.context_precision
                /\ sc.faithfulness \in ScoreVals /\ sc.answer_relevance \in ScoreVals
                /\ (task'[t].eff.logged = 1) <=>
                        (sc.faithfulness < 8 \/ sc.answer_relevance < 8)
                /\ task'[t].eff.logged \in {0, 1}
                /\ body = [id |-> rid, input |-> task[t].content,
                           output |-> responses'[rid].output,
                           references |-> task'[t].env.references]
                /\ responses' = Append(responses,
                        [chat_id |-> task[t].chatId, user_input |-> task[t].content,
                         query |-> task[t].query, output |-> body.output,
                         original_response |-> PayloadOf(task'[t].env.references),
                         rating |-> NullRating])
                /\ body.output = [lang |-> task[t].source_lang, text |-> "a",
                                  prep |-> FALSE, fmt |-> TRUE]
                /\ ReferencesIn(refRows', rid) =
                        [i \in 1..Len(body.references) |->
                            [reference_id |-> body.references[i].id,
                             reference_type |-> body.references[i].type,
                             idx |-> i - 1, response_id |-> rid]]]_vars

\* A turn scored faithfulness at the threshold and answer relevance below it:
\* the gauges carry both and a low-quality record was logged.
C9_Witness ==
    \E t \in Tasks :
        /\ Succeeded(task[t])
        /\ task[t].env.scores.faithfulness = 8
        /\ task[t].env.scores.answer_relevance = 7
        /\ task[t].eff.logged = 1
        /\ gauges.faithfulness = 8 /\ gauges.answer_relevance = 7

\* The Response rows of a chat.
ResponsesOf(c) == {i \in 1..Len(responses) : responses[i].chat_id = c}

\* C10: every turn that completes insert_response adds exactly one Response
\* row: after k such turns on a chat, sequential or interleaved, with equal or
\* different content, the chat holds exactly k Responses.
C10_NoIdempotency ==
    \A c \in 1..MaxChats : Cardinality(ResponsesOf(c)) = completed[c]

\* Two turns with the same content ran interleaved on one chat: each fetched
\* the history before the other wrote, and both rows are there.
C10_Witness ==
    \E t, u \in Tasks :
        /\ t # u
        /\ Succeeded(task[t]) /\ Succeeded(task[u])
        /\ task[t].chatId = task[u].chatId
        /\ task[t].content = task[u].content
        /\ task[t].eff.seen = 0 /\ task[u].eff.seen = 0
        /\ Cardinality(ResponsesOf(task[t].chatId)) = 2

\* C11: the conversation history a turn sends to the QA engine is built from
\* the min(N, M) most recent Responses of the chat, N = max_conversation_turns
\* and M = the Responses the chat holds when the history is fetched: it has
\* 2 * min(N, M) entries, oldest Response first, and each Response gives a
\* user entry immediately followed by an assistant entry with its output.
Fetches(t) ==
    /\ task[t].pc = "translate"
    /\ task'[t].pc = "qa"

RecentOf(c) ==
    {i \in ResponsesOf(c) :
        Cardinality({j \in ResponsesOf(c) : j > i}) < max_conversation_turns}

RankIn(S, i) == Cardinality({j \in S : j <= i})

C11_ConversationHistory ==
    [][\A t \in Tasks :
        Fetches(t) =>
            LET c == task[t].chatId
                M == Cardinality(ResponsesOf(c))
                h == task'[t].conversation_history
            IN  /\ Len(h) = 2 * (IF max_conversation_turns < M
                                 THEN max_conversation_turns ELSE M)
                /\ Cardinality(RecentOf(c)) * 2 = Len(h)
                /\ \A i \in RecentOf(c) :
                     /\ h[2 * RankIn(RecentOf(c), i) - 1].role = "user"
                     /\ h[2 * RankIn(RecentOf(c), i) - 1].content = responses[i].query
                     /\ h[2 * RankIn(RecentOf(c), i)].role = "assistant"
                     /\ h[2 * RankIn(RecentOf(c), i)].content = responses[i].output]_vars

\* A turn on a chat that holds more Responses than the limit, and Responses
\* of another chat between them, has fetched its history.
C11_Witness ==
    \E t \in Tasks :
        /\ task[t].pc = "qa"
        /\ Cardinality(ResponsesOf(task[t].chatId)) > max_conversation_turns
        /\ Len(task[t].conversation_history) = 2 * max_conversation_turns
        /\ \E i \in RecentOf(task[t].chatId), j \in 1..Len(responses) :
             j > i /\ responses[j].chat_id # task[t].chatId

\* C12: a rating operation called with a chat id and a response id reads or
\* changes the rating of a Response only if that Response belongs to the given
\* chat; so no identity has read or modified the rating of a Response whose
\* parent chat is owned by another identity.
InGivenChat(tr) == responses[tr.responseId].chat_id = tr.chatId

OwnedByCaller(tr) == users[chats[responses[tr.responseId].chat_id]] = tr.email

C12_RatingScoped ==
    \A t \in Tasks :
        (task[t].op \in RatingOps /\ task[t].pc = "done") =>
            InGivenChat(task[t]) /\ OwnedByCaller(task[t])
====
